---- MODULE Spec2Model ----
(***************************************************************************)
(* Model of the wobblyjelly plugin (src/wobblyjelly/main.cpp): the         *)
(* per-window jelly state registry g_states, the four host callbacks       *)
(* (moveBegin, move, moveEnd, preRenderWindow), grid mesh generation and   *)
(* plugin exit, together with the part of the GL driver state the plugin   *)
(* creates (object names, buffer contents, the draw call it issues).       *)
(*                                                                         *)
(* Numbers.  Time is counted in ticks of half a microsecond, so that the   *)
(* clamp 1e-6 s of the code is EPSILON_TIME = 2 ticks and a difference of  *)
(* one tick is a positive dt below the clamp.  float/double values are     *)
(* exact extended rationals [n, d] (d > 0 reduced; d = 0 for the IEEE      *)
(* results of a division by zero: NaN, +Inf, -Inf); rounding to float      *)
(* precision is not modelled.  Velocities are pixels per tick.             *)
(***************************************************************************)
EXTENDS Integers, Sequences, FiniteSets, Bags, TLC

VARIABLES
    g_states,   \* the registry: window pointer -> WindowJellyState
    gl,         \* GL driver objects created by the plugin, and the names deleted
    frame,      \* the draw calls issued by the most recent callback
    last,       \* the most recent callback and the arguments it was called with
    loaded,     \* the plugin is initialised and not yet exited
    rendered,   \* history: windows that have gone through a render pass
    lastDrag,   \* history: the most recent moveBegin/moveEnd per window
    args        \* arguments of a direct generateGrid call (GridSpec only)

vars == <<g_states, gl, frame, last, loaded, rendered, lastDrag, args>>

(* ------------------------------ bounds -------------------------------- *)
MaxTick == 2
MaxCols == 3
MaxRows == 3
MaxSize == 4
MaxCalls == 2

(* ------------------------- program constants -------------------------- *)
EPSILON_TIME == 2
TicksPerSecond == 2000000
DefaultCols == 20
DefaultRows == 12

NULL == "null"
Windows == {"w1"}
Pointers == Windows \cup {NULL}

\* clock readings: a few ticks around the start and one second later
Times == (1..MaxTick) \cup {TicksPerSecond + 1}
Positions == {<<0, 0>>, <<10, 0>>, <<10, 5>>}
Sizes == {<<4, 2>>, <<-1, 0>>}
Textures == {7}

(* ------------------------ extended rationals -------------------------- *)
Abs(a) == IF a < 0 THEN -a ELSE a

Sgn(a) == IF a < 0 THEN -1 ELSE IF a > 0 THEN 1 ELSE 0

Max(a, b) == IF a < b THEN b ELSE a

RECURSIVE GCD(_, _)
GCD(a, b) == IF b = 0 THEN a ELSE GCD(b, a % b)

NaN == [n |-> 0, d |-> 0]

\* n / d as IEEE division does it: 0/0 is NaN, x/0 is an infinity
FDiv(n, d) ==
    IF d = 0 THEN [n |-> Sgn(n), d |-> 0]
    ELSE LET g == GCD(Abs(n), Abs(d))
         IN  [n |-> Sgn(d) * (n \div g), d |-> Abs(d) \div g]

FInt(k) == [n |-> k, d |-> 1]

IsFinite(a) == a.d # 0

FMul(a, b) ==
    IF a.d = 0 \/ b.d = 0 THEN [n |-> Sgn(a.n) * Sgn(b.n), d |-> 0]
    ELSE FDiv(a.n * b.n, a.d * b.d)

FSub(a, b) ==
    IF a = NaN \/ b = NaN THEN NaN
    ELSE IF a.d = 0 /\ b.d = 0 THEN (IF a = b THEN NaN ELSE a)
    ELSE IF a.d = 0 THEN a
    ELSE IF b.d = 0 THEN [n |-> -b.n, d |-> 0]
    ELSE FDiv(a.n * b.d - b.n * a.d, a.d * b.d)

(* ----------------------------- registry ------------------------------- *)
EmptyMap == [x \in {} |-> 0]

Put(f, k, v) == [x \in DOMAIN f \cup {k} |-> IF x = k THEN v ELSE f[x]]

\* mutant: the grid members lose their default initialisers
WindowJellyState_NoGridDefaults ==
    [dragging |-> FALSE, lastX |-> 0, lastY |-> 0,
     vx |-> FInt(0), vy |-> FInt(0), lastTime |-> 0,
     vao |-> 0, vbo |-> 0, ebo |-> 0, shader |-> 0,
     gridCols |-> 0, gridRows |-> 0,
     indexCount |-> 0, texId |-> 0]

WindowJellyState ==
    [dragging |-> FALSE, lastX |-> 0, lastY |-> 0,
     vx |-> FInt(0), vy |-> FInt(0), lastTime |-> 0,
     vao |-> 0, vbo |-> 0, ebo |-> 0, shader |-> 0,
     gridCols |-> DefaultCols, gridRows |-> DefaultRows,
     indexCount |-> 0, texId |-> 0]

\* g_states[pWin] of std::unordered_map: the entry, value-initialised if absent
GetOrCreate(reg, pWin) ==
    IF pWin \in DOMAIN reg THEN reg[pWin] ELSE WindowJellyState

(* ------------------------------ GL names ------------------------------ *)
\* glGen* / glCreateProgram: a name not in use, never 0
GenName(used) == CHOOSE k \in 1..(Cardinality(used) + 1) : k \notin used

compileShaderProgram(g) ==
    LET prog == GenName(g.programs)
    IN  [prog |-> prog, gl |-> [g EXCEPT !.programs = @ \cup {prog}]]

(* --------------------------- grid generation -------------------------- *)
\* mutant: the column loop stops at c < cols
RECURSIVE VertexCols_Exclusive(_, _, _, _, _, _)
VertexCols_Exclusive(r, c, cols, rows, winW, winH) ==
    IF c >= cols THEN <<>>
    ELSE LET tx == FDiv(c, cols)
             ty == FDiv(r, rows)
             v  == [x |-> FMul(FSub(tx, FDiv(1, 2)), FInt(winW)),
                    y |-> FMul(FSub(ty, FDiv(1, 2)), FInt(winH)),
                    u |-> tx,
                    v |-> FSub(FInt(1), ty)]
         IN  <<v>> \o VertexCols_Exclusive(r, c + 1, cols, rows, winW, winH)

\* the inner loop of lines 138-149: the vertices c..cols of row r, in push order
RECURSIVE VertexCols(_, _, _, _, _, _)
VertexCols(r, c, cols, rows, winW, winH) ==
    IF c > cols THEN <<>>
    ELSE LET tx == FDiv(c, cols)
             ty == FDiv(r, rows)
             v  == [x |-> FMul(FSub(tx, FDiv(1, 2)), FInt(winW)),
                    y |-> FMul(FSub(ty, FDiv(1, 2)), FInt(winH)),
                    u |-> tx,
                    v |-> FSub(FInt(1), ty)]
         IN  <<v>> \o VertexCols(r, c + 1, cols, rows, winW, winH)

\* the outer loop of lines 137-150: the vertices of rows r..rows
RECURSIVE VertexRows(_, _, _, _, _)
VertexRows(r, cols, rows, winW, winH) ==
    IF r > rows THEN <<>>
    ELSE VertexCols(r, 0, cols, rows, winW, winH)
         \o VertexRows(r + 1, cols, rows, winW, winH)

\* the inner loop of lines 153-166: the two triangles of the cells c..cols-1 of row r
RECURSIVE IndexCols(_, _, _)
IndexCols(r, c, cols) ==
    IF c >= cols THEN <<>>
    ELSE LET i0 == r * (cols + 1) + c
             i1 == i0 + 1
             i2 == i0 + (cols + 1)
             i3 == i2 + 1
         IN  <<i0, i2, i1, i1, i2, i3>> \o IndexCols(r, c + 1, cols)

\* the outer loop of lines 152-167
RECURSIVE IndexRows(_, _, _)
IndexRows(r, cols, rows) ==
    IF r >= rows THEN <<>>
    ELSE IndexCols(r, 0, cols) \o IndexRows(r + 1, cols, rows)

\* lines 134-167: the vertex and index arrays generateGrid builds
GridMesh(cols, rows, winW, winH) ==
    [verts |-> VertexRows(0, cols, rows, winW, winH),
     idx   |-> IndexRows(0, cols, rows)]

\* GridMesh for the arguments the render pass uses, evaluated once
MemoArgs == {<<DefaultCols, DefaultRows, s[1], s[2]>> : s \in Sizes}

MeshMemo == [a \in MemoArgs |-> GridMesh(a[1], a[2], a[3], a[4])]

Mesh(a) == IF a \in MemoArgs THEN MeshMemo[a] ELSE GridMesh(a[1], a[2], a[3], a[4])

\* glBufferData: the data store of buffer `name` is replaced.  The store is
\* kept as the array uploaded ("verts" or "idx") and the arguments it was
\* generated from; BufferData gives its contents.
glBufferData(buffers, name, array, a) ==
    Put(buffers, name,
        [array |-> array, grid |-> a,
         uploads |-> IF name \in DOMAIN buffers THEN buffers[name].uploads + 1 ELSE 1])

BufferData(b) == IF b.array = "verts" THEN Mesh(b.grid).verts ELSE Mesh(b.grid).idx

generateGrid(st, g, cols, rows, winW, winH) ==
    LET a    == <<cols, rows, winW, winH>>
        idx  == Mesh(a).idx
        vao  == IF st.vao = 0 THEN GenName(DOMAIN g.arrays) ELSE st.vao
        vbo  == IF st.vbo = 0 THEN GenName(DOMAIN g.buffers) ELSE st.vbo
        ebo  == IF st.ebo = 0 THEN GenName(DOMAIN g.buffers \cup {vbo}) ELSE st.ebo
    IN  [st |-> [st EXCEPT !.vao = vao, !.vbo = vbo, !.ebo = ebo,
                           !.gridCols = cols, !.gridRows = rows,
                           !.indexCount = Len(idx)],
         gl |-> [g EXCEPT !.buffers = glBufferData(glBufferData(@, vbo, "verts", a),
                                                   ebo, "idx", a),
                          !.arrays = Put(@, vao, [vbo |-> vbo, ebo |-> ebo])]]

(* ------------------------------ callbacks ----------------------------- *)
\* the record of a call: which callback, and what it read of the window and
\* the clock (zeros for what it did not read)
Call(op, pWin, now, pos, size, tex) ==
    [op |-> op, win |-> pWin, now |-> now, pos |-> pos, size |-> size, tex |-> tex]

onMoveBegin(pWin, now) ==
    /\ loaded
    /\ LET st0 == GetOrCreate(g_states, pWin)
           c   == compileShaderProgram(gl)
           st1 == [st0 EXCEPT !.dragging = TRUE, !.lastTime = now]
       IN  IF st1.shader = 0
           THEN /\ g_states' = Put(g_states, pWin, [st1 EXCEPT !.shader = c.prog])
                /\ gl' = c.gl
           ELSE /\ g_states' = Put(g_states, pWin, st1)
                /\ gl' = gl
    /\ frame' = <<>>
    /\ last' = Call("moveBegin", pWin, now, <<0, 0>>, <<0, 0>>, 0)
    /\ lastDrag' = [lastDrag EXCEPT ![pWin] = "begin"]
    /\ UNCHANGED <<loaded, rendered, args>>

onMove(pWin, now) ==
    /\ loaded
    /\ LET st0 == GetOrCreate(g_states, pWin)
       IN  g_states' = Put(g_states, pWin, [st0 EXCEPT !.lastTime = now])
    /\ frame' = <<>>
    /\ last' = Call("move", pWin, now, <<0, 0>>, <<0, 0>>, 0)
    /\ UNCHANGED <<gl, loaded, rendered, lastDrag, args>>

\* mutant: the end of a move does not clear the flag
onMoveEnd_KeepsDragging(pWin) ==
    /\ loaded
    /\ g_states' = Put(g_states, pWin, GetOrCreate(g_states, pWin))
    /\ frame' = <<>>
    /\ last' = Call("moveEnd", pWin, 0, <<0, 0>>, <<0, 0>>, 0)
    /\ lastDrag' = [lastDrag EXCEPT ![pWin] = "end"]
    /\ UNCHANGED <<gl, loaded, rendered, args>>

\* mutant: the end of a move also zeroes the velocity
onMoveEnd_ZeroesVelocity(pWin) ==
    /\ loaded
    /\ LET st0 == GetOrCreate(g_states, pWin)
       IN  g_states' = Put(g_states, pWin,
                           [st0 EXCEPT !.dragging = FALSE, !.vx = FInt(0), !.vy = FInt(0)])
    /\ frame' = <<>>
    /\ last' = Call("moveEnd", pWin, 0, <<0, 0>>, <<0, 0>>, 0)
    /\ lastDrag' = [lastDrag EXCEPT ![pWin] = "end"]
    /\ UNCHANGED <<gl, loaded, rendered, args>>

onMoveEnd(pWin) ==
    /\ loaded
    /\ LET st0 == GetOrCreate(g_states, pWin)
       IN  g_states' = Put(g_states, pWin, [st0 EXCEPT !.dragging = FALSE])
    /\ frame' = <<>>
    /\ last' = Call("moveEnd", pWin, 0, <<0, 0>>, <<0, 0>>, 0)
    /\ lastDrag' = [lastDrag EXCEPT ![pWin] = "end"]
    /\ UNCHANGED <<gl, loaded, rendered, args>>

Amplitude == FDiv(6, 1)
Frequency == FDiv(2, 100)
Damping == FDiv(2, 100)

\* mutant: dt is not clamped to EPSILON_TIME
UpdateVelocity_NoClamp(st, newX, newY, now) ==
    LET dt    == now - st.lastTime
        lastX == IF st.lastTime = 0 THEN newX ELSE st.lastX
        lastY == IF st.lastTime = 0 THEN newY ELSE st.lastY
    IN  [st EXCEPT !.vx = FDiv(newX - lastX, dt),
                   !.vy = FDiv(newY - lastY, dt),
                   !.lastX = newX, !.lastY = newY,
                   !.lastTime = now]

\* lines 261-272: the finite-difference velocity update
UpdateVelocity(st, newX, newY, now) ==
    LET dt    == Max(EPSILON_TIME, now - st.lastTime)
        lastX == IF st.lastTime = 0 THEN newX ELSE st.lastX
        lastY == IF st.lastTime = 0 THEN newY ELSE st.lastY
    IN  [st EXCEPT !.vx = FDiv(newX - lastX, dt),
                   !.vy = FDiv(newY - lastY, dt),
                   !.lastX = newX, !.lastY = newY,
                   !.lastTime = now]

\* lines 280-314: the uniforms set and the indexed draw issued
DrawCall(pWin, st, w, h, tex, now) ==
    [win |-> pWin, program |-> st.shader,
     winSize |-> <<w, h>>, center |-> <<0, 0>>,
     velocity |-> <<st.vx, st.vy>>, time |-> now,
     amplitude |-> Amplitude, frequency |-> Frequency, damping |-> Damping,
     tex |-> tex, vao |-> st.vao, count |-> st.indexCount]

\* mutant: the mesh is regenerated on every frame
LazyMesh_Always(st, g, w, h) ==
    generateGrid(st, g, st.gridCols, st.gridRows, w, h)

\* lines 255-258: the mesh is generated while the state holds no vertex array
LazyMesh(st, g, w, h) ==
    IF st.vao = 0
    THEN generateGrid(st, g, st.gridCols, st.gridRows, w, h)
    ELSE [st |-> st, gl |-> g]

\* mutant: the velocity is only estimated while the window is dragged
RenderPass_OnlyWhenDragging(st, g, pWin, w, h, xpos, ypos, tex, now) ==
    LET gen == LazyMesh(st, g, w, h)
        upd == UpdateVelocity(gen.st, xpos, ypos, now)
        st2 == IF st.dragging THEN upd ELSE [upd EXCEPT !.vx = FInt(0), !.vy = FInt(0)]
    IN  [st |-> st2, gl |-> gen.gl, draw |-> DrawCall(pWin, st2, w, h, tex, now)]

\* lines 254-314 on the entry st of window pWin
RenderPass(st, g, pWin, w, h, xpos, ypos, tex, now) ==
    LET gen == LazyMesh(st, g, w, h)
        st2 == UpdateVelocity(gen.st, xpos, ypos, now)
    IN  [st |-> st2, gl |-> gen.gl, draw |-> DrawCall(pWin, st2, w, h, tex, now)]

onPreRenderWindow(pWin, w, h, xpos, ypos, tex, now) ==
    /\ loaded
    /\ IF pWin = NULL
       THEN /\ frame' = <<>>
            /\ last' = Call("render", NULL, 0, <<0, 0>>, <<0, 0>>, 0)
            /\ UNCHANGED <<g_states, gl, rendered>>
       ELSE LET r == RenderPass(GetOrCreate(g_states, pWin), gl,
                                pWin, w, h, xpos, ypos, tex, now)
            IN  /\ g_states' = Put(g_states, pWin, r.st)
                /\ gl' = r.gl
                /\ frame' = <<r.draw>>
                /\ rendered' = rendered \cup {pWin}
                /\ last' = Call("render", pWin, now, <<xpos, ypos>>, <<w, h>>, tex)
    /\ UNCHANGED <<loaded, lastDrag, args>>

\* mutant: exit releases the buffers and the vertex array but not the program
Deletions_SkipsShader(reg) ==
    LET calls == {<<"buffer", reg[p].vbo, p, 1>> : p \in {q \in DOMAIN reg : reg[q].vbo # 0}}
                 \cup {<<"buffer", reg[p].ebo, p, 2>> : p \in {q \in DOMAIN reg : reg[q].ebo # 0}}
                 \cup {<<"array", reg[p].vao, p, 3>> : p \in {q \in DOMAIN reg : reg[q].vao # 0}}
        names == {<<c[1], c[2]>> : c \in calls}
    IN  [k \in names |-> Cardinality({c \in calls : <<c[1], c[2]>> = k})]

\* the glDelete* calls of PLUGIN_EXIT, as a bag of <<kind, name>>
Deletions(reg) ==
    LET calls == {<<"buffer", reg[p].vbo, p, 1>> : p \in {q \in DOMAIN reg : reg[q].vbo # 0}}
                 \cup {<<"buffer", reg[p].ebo, p, 2>> : p \in {q \in DOMAIN reg : reg[q].ebo # 0}}
                 \cup {<<"array", reg[p].vao, p, 3>> : p \in {q \in DOMAIN reg : reg[q].vao # 0}}
                 \cup {<<"program", reg[p].shader, p, 4>> : p \in {q \in DOMAIN reg : reg[q].shader # 0}}
        names == {<<c[1], c[2]>> : c \in calls}
    IN  [k \in names |-> Cardinality({c \in calls : <<c[1], c[2]>> = k})]

PLUGIN_EXIT ==
    /\ loaded
    /\ LET del == Deletions(g_states)
           gone(kind) == {k[2] : k \in {x \in DOMAIN del : x[1] = kind}}
       IN  gl' = [arrays   |-> [a \in DOMAIN gl.arrays \ gone("array") |-> gl.arrays[a]],
                  buffers  |-> [b \in DOMAIN gl.buffers \ gone("buffer") |-> gl.buffers[b]],
                  programs |-> gl.programs \ gone("program"),
                  deleted  |-> gl.deleted (+) del]
    /\ g_states' = EmptyMap
    /\ loaded' = FALSE
    /\ frame' = <<>>
    /\ last' = Call("exit", NULL, 0, <<0, 0>>, <<0, 0>>, 0)
    /\ UNCHANGED <<rendered, lastDrag, args>>

(* -------------------------- the specification ------------------------- *)
NoArgs == [cols |-> 0, rows |-> 0, w |-> 0, h |-> 0]

\* PLUGIN_INIT has run: the callbacks are registered, the registry is empty
Init ==
    /\ g_states = EmptyMap
    /\ gl = [arrays |-> EmptyMap, buffers |-> EmptyMap, programs |-> {},
             deleted |-> EmptyBag]
    /\ frame = <<>>
    /\ last = Call("init", NULL, 0, <<0, 0>>, <<0, 0>>, 0)
    /\ loaded = TRUE
    /\ rendered = {}
    /\ lastDrag = [p \in Pointers |-> "none"]
    /\ args = NoArgs

Next ==
    \/ \E p \in Pointers, now \in Times : onMoveBegin(p, now)
    \/ \E p \in Pointers, now \in Times : onMove(p, now)
    \/ \E p \in Pointers : onMoveEnd(p)
    \/ \E p \in Pointers, s \in Sizes, xy \in Positions, tex \in Textures, now \in Times :
          onPreRenderWindow(p, s[1], s[2], xy[1], xy[2], tex, now)
    \/ PLUGIN_EXIT

Spec == Init /\ [][Next]_vars

(* ------------- generateGrid called directly on one state -------------- *)
GridCols == -1..MaxCols
GridRows == -1..MaxRows
GridSizes == -1..MaxSize

InitGrid ==
    /\ g_states = Put(EmptyMap, "w1", WindowJellyState)
    /\ gl = [arrays |-> EmptyMap, buffers |-> EmptyMap, programs |-> {},
             deleted |-> EmptyBag]
    /\ frame = <<>>
    /\ last = Call("init", NULL, 0, <<0, 0>>, <<0, 0>>, 0)
    /\ loaded = TRUE
    /\ rendered = {}
    /\ lastDrag = [p \in Pointers |-> "none"]
    /\ args \in [cols : GridCols, rows : GridRows, w : GridSizes, h : GridSizes]
               \cup {[cols |-> DefaultCols, rows |-> DefaultRows, w |-> s[1], h |-> s[2]] :
                        s \in Sizes}

\* the number of generateGrid calls made on state st
Uploads(st) == IF st.vbo = 0 THEN 0 ELSE gl.buffers[st.vbo].uploads

GridCall ==
    /\ Uploads(g_states["w1"]) < MaxCalls
    /\ LET r == generateGrid(g_states["w1"], gl, args.cols, args.rows, args.w, args.h)
       IN  /\ g_states' = Put(g_states, "w1", r.st)
           /\ gl' = r.gl
    /\ last' = Call("generateGrid", "w1", 0, <<0, 0>>, <<args.w, args.h>>, 0)
    /\ UNCHANGED <<frame, loaded, rendered, lastDrag, args>>

NextGrid == GridCall

GridSpec == InitGrid /\ [][NextGrid]_vars

(* ============================== claims =============================== *)
\* the entry of p before a step: the stored one, or the value a first access creates
Before(p) == IF p \in DOMAIN g_states THEN g_states[p] ELSE WindowJellyState

Zero == [n |-> 0, d |-> 1]

\* q is the quotient num / den (den > 0), stated without the division
IsQuotient(q, num, den) == q.d > 0 /\ q.n * den = num * q.d

\* a step that is the render pass of window p
RenderStep(p) == last'.op = "render" /\ last'.win = p /\ p # NULL

(* C1: the first render pass ever executed for a surface leaves its velocity
   at (0,0), whatever the window position and whatever drag events came
   before it. *)
C1_FirstRenderVelocityZero ==
    [][\A p \in Windows :
          (RenderStep(p) /\ p \notin rendered)
              => (g_states'[p].vx = Zero /\ g_states'[p].vy = Zero)]_vars

(* C2 as stated: every render pass sets velocity = (p - lastPosition_before) / dt
   with dt = max(EPSILON_TIME, now - lastTimestamp_before), then
   lastPosition = p and lastTimestamp = now. *)
C2_EveryRenderDifferentiates ==
    [][\A p \in Windows :
          RenderStep(p) =>
              LET b  == Before(p)
                  a  == g_states'[p]
                  dt == Max(2, last'.now - b.lastTime)
              IN  /\ IsQuotient(a.vx, last'.pos[1] - b.lastX, dt)
                  /\ IsQuotient(a.vy, last'.pos[2] - b.lastY, dt)
                  /\ <<a.lastX, a.lastY>> = last'.pos
                  /\ a.lastTime = last'.now]_vars

(* C2 amended: a render pass on a state with lastTimestamp_before # 0 sets
   velocity = (p - lastPosition_before) / dt with
   dt = max(EPSILON_TIME, now - lastTimestamp_before) > 0; on a state with
   lastTimestamp_before = 0 it sets velocity = (0,0); in both cases it then
   sets lastPosition = p and lastTimestamp = now.  So a render pass one
   second after the stored timestamp with the position advanced by (10,0)
   gives 10 pixels per second in x and 0 in y, and an unchanged position
   gives (0,0). *)
C2_RenderDifferentiates ==
    [][\A p \in Windows :
          RenderStep(p) =>
              LET b  == Before(p)
                  a  == g_states'[p]
                  d  == last'.now - b.lastTime
                  dt == IF d < 2 THEN 2 ELSE d
                  dx == last'.pos[1] - b.lastX
                  dy == last'.pos[2] - b.lastY
              IN  /\ b.lastTime # 0 =>
                        /\ IsQuotient(a.vx, dx, dt)
                        /\ IsQuotient(a.vy, dy, dt)
                        /\ (d = 2000000 /\ dx = 10 /\ dy = 0) =>
                               (a.vx.n * 2000000 = 10 * a.vx.d /\ a.vy = Zero)
                        /\ (dx = 0 /\ dy = 0) => (a.vx = Zero /\ a.vy = Zero)
                  /\ b.lastTime = 0 => (a.vx = Zero /\ a.vy = Zero)
                  /\ <<a.lastX, a.lastY>> = last'.pos
                  /\ a.lastTime = last'.now]_vars

\* a render pass has just given 10 pixels per second in x, one second after the stored time
C2_Witness ==
    /\ last.op = "render" /\ last.win = "w1"
    /\ last.now = TicksPerSecond + 1
    /\ g_states["w1"].vx = [n |-> 1, d |-> 200000]
    /\ g_states["w1"].vy = Zero

\* q lies in [0,1]
InUnit(q) == q.d > 0 /\ 0 <= q.n /\ q.n <= q.d

\* the vertex and index arrays held by the buffers of state st
VertsOf(st) == BufferData(gl.buffers[st.vbo])

IdxOf(st) == BufferData(gl.buffers[st.ebo])

(* C3: for cols >= 1, rows >= 1 and width, height >= 0, generateGrid produces
   exactly (cols+1)*(rows+1) vertices and cols*rows*6 indices (recorded as
   indexCount), every index is >= 0 and < the vertex count, and every uv
   component lies in [0,1]. *)
C3_GridCounts ==
    (last.op = "generateGrid" /\ args.cols >= 1 /\ args.rows >= 1
        /\ args.w >= 0 /\ args.h >= 0) =>
        LET st    == g_states["w1"]
            verts == VertsOf(st)
            idx   == IdxOf(st)
        IN  /\ Len(verts) = (args.cols + 1) * (args.rows + 1)
            /\ Len(idx) = args.cols * args.rows * 6
            /\ st.indexCount = args.cols * args.rows * 6
            /\ \A i \in 1..Len(idx) : idx[i] >= 0 /\ idx[i] < Len(verts)
            /\ \A i \in 1..Len(verts) : InUnit(verts[i].u) /\ InUnit(verts[i].v)

\* the 2 x 1 grid of a 4 x 2 surface has been generated: its first vertex is
\* (-2,-1) with uv (0,1), its last (2,1) with uv (1,0)
C3_Witness ==
    /\ last.op = "generateGrid"
    /\ args = [cols |-> 2, rows |-> 1, w |-> 4, h |-> 2]
    /\ LET verts == VertsOf(g_states["w1"])
       IN  /\ Len(verts) = 6
           /\ verts[1] = [x |-> [n |-> -2, d |-> 1], y |-> [n |-> -1, d |-> 1],
                          u |-> [n |-> 0, d |-> 1], v |-> [n |-> 1, d |-> 1]]
           /\ verts[6] = [x |-> [n |-> 2, d |-> 1], y |-> [n |-> 1, d |-> 1],
                          u |-> [n |-> 1, d |-> 1], v |-> [n |-> 0, d |-> 1]]
    /\ IdxOf(g_states["w1"]) = <<0, 3, 1, 1, 3, 4, 1, 4, 2, 2, 4, 5>>

(* C4: grid generation with cols < 1, rows < 1 or a negative width or height
   fails with InvalidDimension: no mesh is produced, the surface's mesh
   handles, gridCols, gridRows and indexCount stay as they were, and the
   render pass of that frame does not draw the surface. *)
C4_InvalidDimensionRejected ==
    [][\A p \in Windows :
          (RenderStep(p) /\ Before(p).vao = 0
              /\ (last'.size[1] < 0 \/ last'.size[2] < 0
                  \/ Before(p).gridCols < 1 \/ Before(p).gridRows < 1))
          => LET b == Before(p)
                 a == g_states'[p]
             IN  /\ <<a.vao, a.vbo, a.ebo>> = <<b.vao, b.vbo, b.ebo>>
                 /\ <<a.gridCols, a.gridRows, a.indexCount>>
                        = <<b.gridCols, b.gridRows, b.indexCount>>
                 /\ gl'.buffers = gl.buffers
                 /\ frame' = <<>>]_vars

(* C5: BeginDrag on a surface, idle or dragging, leaves dragging = true and
   lastTimestamp = the current time; in every reachable state a surface's
   dragging flag is true exactly when the most recent BeginDrag/EndDrag event
   for it was a BeginDrag (false when it received none), so render passes and
   UpdateDrag events never change the flag. *)
C5_DraggingFollowsEvents ==
    /\ [](\A p \in DOMAIN g_states : g_states[p].dragging <=> lastDrag[p] = "begin")
    /\ [][(last'.op = "moveBegin" =>
              (g_states'[last'.win].dragging
                  /\ g_states'[last'.win].lastTime = last'.now))
          /\ (last'.op \in {"move", "render"} =>
                 \A p \in DOMAIN g_states' : g_states'[p].dragging = Before(p).dragging)]_vars

\* a dragging surface has been rendered while the drag of another entry has ended
C5_Witness ==
    /\ last.op = "render" /\ last.win = "w1"
    /\ g_states["w1"].dragging
    /\ NULL \in DOMAIN g_states /\ ~g_states[NULL].dragging /\ lastDrag[NULL] = "end"

(* C6: EndDrag on a surface sets dragging = false and leaves that surface's
   velocity, lastPosition, lastTimestamp, mesh handles and shader handle
   unchanged, and leaves every other surface's state unchanged. *)
C6_EndDragOnlyClearsFlag ==
    [][last'.op = "moveEnd" =>
          LET p == last'.win
              b == Before(p)
              a == g_states'[p]
          IN  /\ ~a.dragging
              /\ <<a.vx, a.vy, a.lastX, a.lastY, a.lastTime>>
                     = <<b.vx, b.vy, b.lastX, b.lastY, b.lastTime>>
              /\ <<a.vao, a.vbo, a.ebo, a.shader, a.indexCount>>
                     = <<b.vao, b.vbo, b.ebo, b.shader, b.indexCount>>
              /\ gl' = gl
              /\ \A q \in DOMAIN g_states \ {p} :
                     q \in DOMAIN g_states' /\ g_states'[q] = g_states[q]]_vars

\* EndDrag has acted on a moving, rendered surface while another entry exists
C6_Witness ==
    /\ last.op = "moveEnd" /\ last.win = "w1"
    /\ ~g_states["w1"].dragging
    /\ g_states["w1"].vx # Zero /\ g_states["w1"].vao # 0 /\ g_states["w1"].shader # 0
    /\ NULL \in DOMAIN g_states /\ g_states[NULL].dragging

(* C7: the render pass does not depend on the dragging flag: run on the
   same state with the flag inverted, on the same size, position, texture and
   time, it produces the same velocity, lastPosition, lastTimestamp, mesh and
   draw call, with uniforms center = (0,0), amplitude = 6.0, frequency = 0.02,
   damping = 0.02 and time = now. *)
C7_RenderIgnoresDragging ==
    [][\A p \in Windows :
          RenderStep(p) =>
              LET b   == Before(p)
                  c   == last'
                  alt == RenderPass([b EXCEPT !.dragging = ~b.dragging], gl, p,
                                    c.size[1], c.size[2], c.pos[1], c.pos[2],
                                    c.tex, c.now)
                  d   == frame'[1]
              IN  /\ g_states'[p] = [alt.st EXCEPT !.dragging = b.dragging]
                  /\ gl' = alt.gl
                  /\ frame' = <<alt.draw>>
                  /\ d.center = <<0, 0>> /\ d.time = c.now
                  /\ d.winSize = c.size /\ d.tex = c.tex
                  /\ d.velocity = <<g_states'[p].vx, g_states'[p].vy>>
                  /\ d.amplitude = [n |-> 6, d |-> 1]
                  /\ d.frequency = [n |-> 1, d |-> 50]
                  /\ d.damping = [n |-> 1, d |-> 50]]_vars

\* a moving surface has been rendered after its drag ended
C7_Witness ==
    /\ last.op = "render" /\ last.win = "w1"
    /\ lastDrag["w1"] = "end" /\ ~g_states["w1"].dragging
    /\ g_states["w1"].vx # Zero
    /\ Len(frame) = 1 /\ frame[1].velocity[1] = g_states["w1"].vx

(* C8: registry access is get-or-create: a BeginDrag, UpdateDrag, EndDrag or
   render call naming a surface not yet in the registry inserts for it a
   default-initialised state (dragging = false, velocity = (0,0),
   lastTimestamp = 0, gridCols = 20, gridRows = 12, no mesh) and acts on
   that, without changing any other entry; an entry is removed only by
   shutdown, which removes all entries.  A surface is named by a non-null
   window pointer in a render call. *)
C8_GetOrCreate ==
    [][/\ (last'.op \in {"moveBegin", "move", "moveEnd"} \/ RenderStep(last'.win)) =>
            LET p == last'.win
                a == g_states'[p]
            IN  /\ p \in DOMAIN g_states'
                /\ \A q \in DOMAIN g_states \ {p} :
                       q \in DOMAIN g_states' /\ g_states'[q] = g_states[q]
                /\ p \notin DOMAIN g_states =>
                       /\ a.gridCols = 20 /\ a.gridRows = 12 /\ a.texId = 0
                       /\ last'.op # "moveBegin" => (~a.dragging /\ a.shader = 0)
                       /\ last'.op \in {"moveEnd", "render"} =>
                              a.lastTime = (IF last'.op = "render" THEN last'.now ELSE 0)
                       /\ a.vx = Zero /\ a.vy = Zero
                       /\ last'.op # "render" =>
                              /\ <<a.lastX, a.lastY>> = <<0, 0>>
                              /\ <<a.vao, a.vbo, a.ebo, a.indexCount>> = <<0, 0, 0, 0>>
       /\ last'.op # "exit" => DOMAIN g_states \subseteq DOMAIN g_states'
       /\ last'.op = "exit" => DOMAIN g_states' = {}]_vars

\* a render call has inserted the entry of a surface beside an existing entry
C8_Witness ==
    /\ last.op = "render" /\ last.win = "w1"
    /\ DOMAIN g_states = {NULL, "w1"}
    /\ g_states["w1"].shader = 0 /\ lastDrag["w1"] = "none"
    /\ g_states[NULL].dragging

(* C9: the mesh of a surface is generated exactly once: its first render pass
   generates it, sized to the window size of that pass with the state's
   gridCols x gridRows, and no later render pass or event for the surface
   regenerates or changes it, also when later frames supply another size. *)
C9_MeshGeneratedOnce ==
    /\ [](\A p \in DOMAIN g_states :
            LET st == g_states[p]
            IN  /\ st.vao # 0 <=> p \in rendered
                /\ st.vao # 0 =>
                       /\ st.vbo # 0 /\ st.ebo # 0 /\ st.vbo # st.ebo
                       /\ gl.arrays[st.vao] = [vbo |-> st.vbo, ebo |-> st.ebo]
                       /\ gl.buffers[st.vbo].uploads = 1
                       /\ gl.buffers[st.ebo].uploads = 1)
    /\ [][\A p \in Windows :
            /\ (RenderStep(p) /\ p \notin rendered) =>
                   LET a == g_states'[p]
                       m == <<20, 12, last'.size[1], last'.size[2]>>
                   IN  /\ gl'.buffers[a.vbo] = [array |-> "verts", grid |-> m, uploads |-> 1]
                       /\ gl'.buffers[a.ebo] = [array |-> "idx", grid |-> m, uploads |-> 1]
                       /\ a.indexCount = 1440
            /\ (p \in rendered /\ last'.op # "exit") =>
                   LET b == g_states[p]
                       a == g_states'[p]
                   IN  /\ <<a.vao, a.vbo, a.ebo, a.indexCount, a.gridCols, a.gridRows>>
                          = <<b.vao, b.vbo, b.ebo, b.indexCount, b.gridCols, b.gridRows>>
                       /\ gl'.buffers[a.vbo] = gl.buffers[b.vbo]
                       /\ gl'.buffers[a.ebo] = gl.buffers[b.ebo]
                       /\ gl'.arrays = gl.arrays]_vars

\* a surface has been rendered at a size other than the one its mesh was generated for
C9_Witness ==
    /\ last.op = "render" /\ last.win = "w1"
    /\ last.size = <<-1, 0>>
    /\ gl.buffers[g_states["w1"].vbo].grid = <<20, 12, 4, 2>>

(* C10: the render pass is the only operation that changes lastPosition,
   lastTimestamp and velocity: every UpdateDrag, BeginDrag and EndDrag event
   leaves them unchanged, for the surface it names and for every other
   surface.  The one write the specification gives an event, BeginDrag
   resetting the lastTimestamp of its own surface, is not counted here. *)
C10_OnlyRenderChangesTemporalFields ==
    [][last'.op \in {"moveBegin", "move", "moveEnd"} =>
          \A p \in Pointers :
              LET b == Before(p)
                  a == IF p \in DOMAIN g_states' THEN g_states'[p] ELSE WindowJellyState
              IN  /\ <<a.lastX, a.lastY, a.vx, a.vy>> = <<b.lastX, b.lastY, b.vx, b.vy>>
                  /\ (last'.op = "moveBegin" /\ last'.win = p) \/ a.lastTime = b.lastTime]_vars

(* C11: after PLUGIN_EXIT, whatever events and render passes came before,   *)
(* the registry is empty and every GL object created for a window (vertex   *)
(* array, vertex buffer, index buffer, program) has been deleted exactly    *)
(* once, none is left alive, and the name 0 (never created) is not deleted. *)
Created(g) ==
    {<<"array", a>> : a \in DOMAIN g.arrays}
    \cup {<<"buffer", b>> : b \in DOMAIN g.buffers}
    \cup {<<"program", q>> : q \in g.programs}

C11_ExitReleasesEveryHandleOnce ==
    /\ [](~loaded => /\ g_states = EmptyMap
                     /\ Created(gl) = {}
                     /\ \A k \in BagToSet(gl.deleted) :
                           CopiesIn(k, gl.deleted) = 1 /\ k[2] # 0)
    /\ [][(loaded /\ ~loaded') => BagToSet(gl'.deleted) = Created(gl)]_vars

\* exit after a window was dragged and rendered and the null pointer was
\* dragged: five objects released
C11_Witness ==
    /\ ~loaded
    /\ last.op = "exit"
    /\ "w1" \in rendered
    /\ Cardinality(BagToSet(gl.deleted)) = 5

(* C12: every draw call of a render pass uses a compiled program (a non-   *)
(* zero name the driver holds) and an index count equal to                 *)
(* gridCols*gridRows*6 > 0 of the window drawn, also for a window that     *)
(* never received a moveBegin.                                             *)
C12_DrawUsesCompiledShader ==
    \A i \in 1..Len(frame) :
        LET d  == frame[i]
            st == g_states[d.win]
        IN  /\ d.program # 0
            /\ d.program \in gl.programs
            /\ d.count = st.gridCols * st.gridRows * 6
            /\ d.count > 0

====
